---- MODULE Spec2Model ----
(***************************************************************************)
(* Model of task_system_rs (src/src/lib.rs): a TaskSystem that wraps a     *)
(* fixed-size thread pool, and the Task handles it returns.  Every task    *)
(* owns one Mutex<TaskSharedState> holding `status` and `output`.          *)
(*                                                                         *)
(* Threads of the model:                                                   *)
(*   - the submitting thread, which calls TaskSystem::run;                 *)
(*   - the pool's workers, which execute the job closure of run;           *)
(*   - caller threads, which call status/queued/running/completed/wait/    *)
(*     value on handles that run has returned.                             *)
(* A step is one lock acquisition, one critical section up to the drop of  *)
(* its guard, or one step between two critical sections.                   *)
(***************************************************************************)
EXTENDS Integers, Sequences, FiniteSets, TLC

\* ---------------------------------------------------- inputs and bounds
\* n_workers, as the repository's tests create the system: TaskSystem::new(1).
NWorkers == 1
\* Calls the caller threads begin in one behaviour (MaxLiveCalls: in the
\* specifications with fairness), and the number of caller threads.
MaxCalls == 2
MaxLiveCalls == 1
NCallers == 2

\* ------------------------------------------------------- pool and threads
\* TaskSystem::new(n_workers): the pool has exactly n_workers threads.
PoolSizePlusOne(n) == n + 1
PoolSize(n) == n

Workers == 1..PoolSize(NWorkers)
Callers == 1..NCallers
MaxTasks == NWorkers + 1
\* The values a submitted closure may return (the type O).
Values == {"a", "b"}

Free == [k |-> "free", i |-> 0]
MainThread == [k |-> "main", i |-> 0]
WorkerThread(w) == [k |-> "worker", i |-> w]
CallerThread(c) == [k |-> "caller", i |-> c]

\* ------------------------------------------------------------ value types
TaskStatus == {"None", "Waiting", "Queued", "Running", "Completed"}
GetValueError == {"NotReady", "AlreadyTaken"}

\* Option<O>: None is <<>>, Some(v) is <<v>>.
NoneOpt == <<>>
Some(v) == <<v>>

\* Result<O, GetValueError>
Ok(v) == [tag |-> "Ok", st |-> "-", b |-> FALSE, val |-> v, err |-> "-"]
Err(e) == [tag |-> "Err", st |-> "-", b |-> FALSE, val |-> "-", err |-> e]

\* TaskSharedState::new
TaskSharedStateNew == [status |-> "None", output |-> NoneOpt]

VARIABLES
    status,      \* status[t]: TaskSharedState.status of task t
    output,      \* output[t]: TaskSharedState.output of task t
    lock,        \* lock[t]: the thread holding the task's Mutex, or Free
    ret,         \* ret[t]: what the closure of t returned, one entry per invocation
    rpc,         \* position of the submitting thread inside run()
    returned,    \* number of tasks whose handle run() has returned
    queue,       \* the pool's job queue (task ids, in submission order)
    wpc,         \* wpc[w]: position of worker w inside the job closure
    wtask,       \* wtask[w]: the task whose job worker w executes (0: none)
    wout,        \* wout[w]: the job's local `output` (<<>> until fun returns)
    cpc,         \* cpc[c]: the call caller c is in, its position and result
    budget,      \* number of calls the callers may still begin
    valueLog,    \* valueLog[t]: value() calls on t in lock order: whether the
                 \* call found the task Completed, and its result
    seen         \* seen[t]: distinct status() snapshots of t, in lock order

vars == <<status, output, lock, ret, rpc, returned, queue, wpc, wtask, wout,
          cpc, budget, valueLog, seen>>

shared == <<status, output, lock>>
runVars == <<ret, rpc, returned>>
poolVars == <<queue, wpc, wtask, wout>>
callVars == <<cpc, budget, valueLog, seen>>

Tasks == 1..Len(status)
Handles == 1..returned

NoResult == [tag |-> "none", st |-> "-", b |-> FALSE, val |-> "-", err |-> "-"]
IdleCall == [op |-> "idle", task |-> 0, phase |-> "idle", ready |-> FALSE, r |-> NoResult]

Init ==
    /\ status = <<>>
    /\ output = <<>>
    /\ lock = <<>>
    /\ ret = <<>>
    /\ rpc = "idle"
    /\ returned = 0
    /\ queue = <<>>
    /\ wpc = [w \in Workers |-> "idle"]
    /\ wtask = [w \in Workers |-> 0]
    /\ wout = [w \in Workers |-> NoneOpt]
    /\ cpc = [c \in Callers |-> IdleCall]
    /\ budget = MaxCalls
    /\ valueLog = <<>>
    /\ seen = <<>>

\* Mutex::lock on the shared state of task t (line 53: Arc<Mutex<..>>)
\* returns only while no thread holds the guard.
LockNeverBlocks(t) == TRUE
LockAvailable(t) == lock[t] = Free

\* ------------------------------------------------------- TaskSystem::run
\* The task being built by the run() call in progress.
Cur == Len(status)

\* lines 124-127: let task = Task::<O>::new(); and the lock() of the new
\* task's mutex, which no other thread can reach yet.
RunNew ==
    /\ rpc = "idle"
    /\ Len(status) < MaxTasks
    /\ status' = Append(status, TaskSharedStateNew.status)
    /\ output' = Append(output, TaskSharedStateNew.output)
    /\ lock' = Append(lock, MainThread)
    /\ ret' = Append(ret, NoneOpt)
    /\ valueLog' = Append(valueLog, <<>>)
    /\ seen' = Append(seen, <<>>)
    /\ rpc' = "queued"
    /\ UNCHANGED <<returned, poolVars, cpc, budget>>

\* line 128: the status run() writes before the job is handed to the pool.
MarkQueuedOmitted == "None"
MarkQueuedStatus == "Queued"

\* lines 128-129: mutex.status = TaskStatus::Queued; the guard is dropped.
RunMarkQueued ==
    /\ rpc = "queued"
    /\ lock[Cur] = MainThread
    /\ status' = [status EXCEPT ![Cur] = MarkQueuedStatus]
    /\ lock' = [lock EXCEPT ![Cur] = Free]
    /\ rpc' = "execute"
    /\ UNCHANGED <<output, ret, returned, poolVars, callVars>>

\* line 133: self.pool.execute(job) puts the job behind the jobs submitted
\* before it.
EnqueueAtFront(q, t) == <<t>> \o q
Enqueue(q, t) == Append(q, t)

\* lines 131-148: the job is handed to the pool and the handle is returned
\* to the caller of run().
RunExecute ==
    /\ rpc = "execute"
    /\ queue' = Enqueue(queue, Cur)
    /\ returned' = Cur
    /\ rpc' = "idle"
    /\ UNCHANGED <<shared, ret, wpc, wtask, wout, callVars>>

\* ------------------------------------------------------------ the pool job
\* An idle worker takes the oldest job of the pool's queue.
WorkerTake(w) ==
    /\ wpc[w] = "idle"
    /\ queue # <<>>
    /\ wtask' = [wtask EXCEPT ![w] = Head(queue)]
    /\ queue' = Tail(queue)
    /\ wpc' = [wpc EXCEPT ![w] = "lockRunning"]
    /\ UNCHANGED <<shared, runVars, wout, callVars>>

\* line 131: let shared_state = task.shared_state.clone();  The job captures
\* a reference to the shared state of the task run() has just built.
SharedStateOfFirstTask(w) == 1
SharedState(w) == wtask[w]

\* line 135: let mut mutex = shared_state.lock().unwrap();
WorkerLockRunning(w) ==
    /\ wpc[w] = "lockRunning"
    /\ LockAvailable(SharedState(w))
    /\ lock' = [lock EXCEPT ![SharedState(w)] = WorkerThread(w)]
    /\ wpc' = [wpc EXCEPT ![w] = "markRunning"]
    /\ UNCHANGED <<status, output, runVars, queue, wtask, wout, callVars>>

\* The guard taken at line 135 is dropped at the end of its block (line 137),
\* before fun is called: the holder of the task's lock after that block.
GuardKeptAcrossFun(w) == WorkerThread(w)
GuardAfterMarkRunning(w) == Free

\* line 136: the status the job writes before it calls fun.
MarkRunningOmitted == "Queued"
MarkRunningAsCompleted == "Completed"
MarkRunningStatus == "Running"

\* line 139: after the block that marks the task Running the job calls fun.
PcSkipsFun == "lockCompleted"
PcAfterMarkRunning == "fun"

\* lines 136-137: mutex.status = TaskStatus::Running; the guard is dropped.
WorkerMarkRunning(w) ==
    /\ wpc[w] = "markRunning"
    /\ lock[SharedState(w)] = WorkerThread(w)
    /\ status' = [status EXCEPT ![SharedState(w)] = MarkRunningStatus]
    /\ lock' = [lock EXCEPT ![SharedState(w)] = GuardAfterMarkRunning(w)]
    /\ wpc' = [wpc EXCEPT ![w] = PcAfterMarkRunning]
    /\ UNCHANGED <<output, runVars, queue, wtask, wout, callVars>>

\* line 139: let output = fun();  (the step at which the closure returns v)
WorkerFunReturns(w, v) ==
    /\ wpc[w] = "fun"
    /\ wout' = [wout EXCEPT ![w] = Some(v)]
    /\ ret' = [ret EXCEPT ![wtask[w]] = Append(@, v)]
    /\ wpc' = [wpc EXCEPT ![w] = "lockCompleted"]
    /\ UNCHANGED <<shared, rpc, returned, queue, wtask, callVars>>

\* line 142: let mut mutex = shared_state.lock().unwrap();
WorkerLockCompleted(w) ==
    /\ wpc[w] = "lockCompleted"
    /\ LockAvailable(SharedState(w))
    /\ lock' = [lock EXCEPT ![SharedState(w)] = WorkerThread(w)]
    /\ wpc' = [wpc EXCEPT ![w] = "setOutput"]
    /\ UNCHANGED <<status, output, runVars, queue, wtask, wout, callVars>>

\* line 143: what the job stores in the output slot.
JobOutputDropped(w) == NoneOpt
JobOutput(w) == wout[w]

\* lines 141-145: output and status are written in one block under the guard
\* taken at line 142: the holder of the task's lock between the two writes.
GuardDroppedAfterSetOutput(w) == Free
GuardAfterSetOutput(w) == WorkerThread(w)

\* line 143: mutex.output = Some(output);
WorkerSetOutput(w) ==
    /\ wpc[w] = "setOutput"
    /\ lock[SharedState(w)] = WorkerThread(w)
    /\ output' = [output EXCEPT ![SharedState(w)] = JobOutput(w)]
    /\ lock' = [lock EXCEPT ![SharedState(w)] = GuardAfterSetOutput(w)]
    /\ wpc' = [wpc EXCEPT ![w] = "markCompleted"]
    /\ UNCHANGED <<status, runVars, queue, wtask, wout, callVars>>

\* line 144: the status the job writes after it stored the output.
MarkCompletedAsQueued == "Queued"
MarkCompletedStatus == "Completed"

\* lines 144-146: mutex.status = TaskStatus::Completed; the guard is dropped
\* and the job ends.
WorkerMarkCompleted(w) ==
    /\ wpc[w] = "markCompleted"
    /\ lock[SharedState(w)] = WorkerThread(w)
    /\ status' = [status EXCEPT ![SharedState(w)] = MarkCompletedStatus]
    /\ lock' = [lock EXCEPT ![SharedState(w)] = Free]
    /\ wpc' = [wpc EXCEPT ![w] = "idle"]
    /\ wtask' = [wtask EXCEPT ![w] = 0]
    /\ wout' = [wout EXCEPT ![w] = NoneOpt]
    /\ UNCHANGED <<output, runVars, queue, callVars>>

\* ------------------------------------------------------------ Task handle
\* A caller thread begins a call on a handle run() has returned.  `ready`
\* records, for value(), whether the task was Completed when the call began.
\* queued(), running() and completed() are the same code up to the status
\* they compare with: a call of one of them is "predicate" until its
\* critical section, which fixes which of the three it is.
Ops == {"status", "predicate", "wait", "value"}
Predicates == {"queued", "running", "completed"}

BeginCall(c, op, t) ==
    /\ cpc[c].op = "idle"
    /\ budget > 0
    /\ t \in Handles
    /\ cpc' = [cpc EXCEPT ![c] =
                 [op |-> op, task |-> t, phase |-> "lock",
                  ready |-> op = "value" /\ status[t] = "Completed",
                  r |-> NoResult]]
    /\ budget' = budget - 1
    /\ UNCHANGED <<shared, runVars, poolVars, valueLog, seen>>

\* self.shared_state.lock().unwrap()  (lines 64, 80, 85, 90, 95, 102)
CallLock(c) ==
    /\ cpc[c].phase = "lock"
    /\ LockAvailable(cpc[c].task)
    /\ lock' = [lock EXCEPT ![cpc[c].task] = CallerThread(c)]
    /\ cpc' = [cpc EXCEPT ![c].phase = "held"]
    /\ UNCHANGED <<status, output, runVars, poolVars, budget, valueLog, seen>>

Holds(c, op) ==
    /\ cpc[c].op = op
    /\ cpc[c].phase = "held"
    /\ lock[cpc[c].task] = CallerThread(c)

\* The critical section of call op ends with result r: the guard is dropped.
Done(c, op, r) == [cpc EXCEPT ![c].op = op, ![c].phase = "done", ![c].r = r]

\* Option::take (line 68): what is left in the slot.
TakeLeavesValue(out) == out
Take(out) == NoneOpt

\* lines 66-74: the result of value() for the status and output it finds.
ValueMatchIgnoresStatus(st, out) ==
    IF out # NoneOpt THEN Ok(out[1]) ELSE Err("AlreadyTaken")
ValueMatch(st, out) ==
    IF st = "Completed"
    THEN IF out # NoneOpt THEN Ok(out[1]) ELSE Err("AlreadyTaken")
    ELSE Err("NotReady")

\* lines 66-74: the output slot value() leaves behind.
OutputAfterValue(st, out) ==
    IF st = "Completed" THEN Take(out) ELSE out

StatusResult(s) == [tag |-> "Status", st |-> s, b |-> FALSE, val |-> "-", err |-> "-"]
BoolResult(b) == [tag |-> "Bool", st |-> "-", b |-> b, val |-> "-", err |-> "-"]
UnitResult == [tag |-> "Unit", st |-> "-", b |-> FALSE, val |-> "-", err |-> "-"]

\* Task::value, lines 66-75, up to the drop of the guard.
Value(c) ==
    LET t == cpc[c].task
        r == ValueMatch(status[t], output[t])
    IN  /\ Holds(c, "value")
        /\ output' = [output EXCEPT ![t] = OutputAfterValue(status[t], output[t])]
        /\ valueLog' = [valueLog EXCEPT ![t] =
                          Append(@, [completed |-> status[t] = "Completed", r |-> r])]
        /\ lock' = [lock EXCEPT ![t] = Free]
        /\ cpc' = Done(c, "value", r)
        /\ UNCHANGED <<status, runVars, poolVars, budget, seen>>

Observe(sq, s) == IF sq # <<>> /\ sq[Len(sq)] = s THEN sq ELSE Append(sq, s)

\* Task::status, lines 80-82.
Status(c) ==
    LET t == cpc[c].task
    IN  /\ Holds(c, "status")
        /\ seen' = [seen EXCEPT ![t] = Observe(@, status[t])]
        /\ lock' = [lock EXCEPT ![t] = Free]
        /\ cpc' = Done(c, "status", StatusResult(status[t]))
        /\ UNCHANGED <<status, output, runVars, poolVars, budget, valueLog>>

\* The status each predicate compares with (lines 86, 91, 96).
PredicateStatusCopied(op) ==
    CASE op = "queued" -> "Queued"
      [] op = "running" -> "Queued"
      [] op = "completed" -> "Completed"

PredicateStatus(op) ==
    CASE op = "queued" -> "Queued"
      [] op = "running" -> "Running"
      [] op = "completed" -> "Completed"

\* Task::queued, Task::running, Task::completed, lines 84-97.
Predicate(c, op) ==
    LET t == cpc[c].task
    IN  /\ Holds(c, "predicate")
        /\ lock' = [lock EXCEPT ![t] = Free]
        /\ cpc' = Done(c, op, BoolResult(status[t] = PredicateStatus(op)))
        /\ UNCHANGED <<status, output, runVars, poolVars, budget, valueLog, seen>>

\* line 103: the test that ends the loop of wait().
WaitBreaksOnRunning(st) == st \in {"Running", "Completed"}
WaitBreaks(st) == st = "Completed"

\* line 106: the guard taken at line 102 is dropped at the end of each
\* iteration of the loop: the holder of the task's lock after an iteration.
GuardKeptWhileWaiting(c) == CallerThread(c)
GuardAfterWaitIteration(c) == Free

\* Task::wait, lines 101-106: one iteration of the loop.
Wait(c) ==
    LET t == cpc[c].task
    IN  /\ Holds(c, "wait")
        /\ lock' = [lock EXCEPT ![t] =
                      IF WaitBreaks(status[t]) THEN Free ELSE GuardAfterWaitIteration(c)]
        /\ cpc' = IF WaitBreaks(status[t])
                  THEN Done(c, "wait", UnitResult)
                  ELSE [cpc EXCEPT ![c].phase = "lock"]
        /\ UNCHANGED <<status, output, runVars, poolVars, budget, valueLog, seen>>

\* The call returns its result to the caller.
Return(c) ==
    /\ cpc[c].phase = "done"
    /\ cpc' = [cpc EXCEPT ![c] = IdleCall]
    /\ UNCHANGED <<shared, runVars, poolVars, budget, valueLog, seen>>

\* ------------------------------------------------------------------- Next
Run ==
    \/ RunNew
    \/ RunMarkQueued
    \/ RunExecute

Worker(w) ==
    \/ WorkerTake(w)
    \/ WorkerLockRunning(w)
    \/ WorkerMarkRunning(w)
    \/ \E v \in Values : WorkerFunReturns(w, v)
    \/ WorkerLockCompleted(w)
    \/ WorkerSetOutput(w)
    \/ WorkerMarkCompleted(w)

Caller(c) ==
    \/ \E op \in Ops, t \in Handles : BeginCall(c, op, t)
    \/ CallLock(c)
    \/ Value(c)
    \/ Status(c)
    \/ \E op \in Predicates : Predicate(c, op)
    \/ Wait(c)
    \/ Return(c)

Next ==
    \/ Run
    \/ \E w \in Workers : Worker(w)
    \/ \E c \in Callers : Caller(c)

Spec == Init /\ [][Next]_vars

\* ---------------------------------------------------------------- fairness
\* Every thread that can take a step eventually takes one, and a thread
\* blocked in lock() gets the lock if it is free again and again (fair lock
\* acquisition).  Nothing is assumed of the submitting thread, of callers
\* beginning calls, or of the closure returning.
CriticalSection(c) ==
    \/ Value(c)
    \/ Status(c)
    \/ \E op \in Predicates : Predicate(c, op)
    \/ Wait(c)

Fairness ==
    /\ \A w \in Workers :
          /\ WF_vars(WorkerTake(w))
          /\ SF_vars(WorkerLockRunning(w))
          /\ WF_vars(WorkerMarkRunning(w))
          /\ SF_vars(WorkerLockCompleted(w))
          /\ WF_vars(WorkerSetOutput(w))
          /\ WF_vars(WorkerMarkCompleted(w))
    /\ \A c \in Callers :
          /\ SF_vars(CallLock(c))
          /\ WF_vars(CriticalSection(c))

\* The closure of every job that was started returns.
ClosuresReturn ==
    \A w \in Workers : WF_vars(\E v \in Values : WorkerFunReturns(w, v))

\* The specifications with fairness start with a smaller budget of calls.
LiveInit ==
    /\ status = <<>>
    /\ output = <<>>
    /\ lock = <<>>
    /\ ret = <<>>
    /\ rpc = "idle"
    /\ returned = 0
    /\ queue = <<>>
    /\ wpc = [w \in Workers |-> "idle"]
    /\ wtask = [w \in Workers |-> 0]
    /\ wout = [w \in Workers |-> NoneOpt]
    /\ cpc = [c \in Callers |-> IdleCall]
    /\ budget = MaxLiveCalls
    /\ valueLog = <<>>
    /\ seen = <<>>

FairSpec == LiveInit /\ [][Next]_vars /\ Fairness
LiveSpec == LiveInit /\ [][Next]_vars /\ Fairness /\ ClosuresReturn

\* ----------------------------------------------------------------- claims
AllTasks == 1..MaxTasks

OkEntries(t) == {i \in DOMAIN valueLog[t] : valueLog[t][i].r.tag = "Ok"}
CompletedEntries(t) == {i \in DOMAIN valueLog[t] : valueLog[t][i].completed}

\* Caller c is inside a value() call on t that began when t was already
\* Completed and has passed its critical section (it has not returned yet).
ValueDone(c, t) ==
    /\ cpc[c].op = "value"
    /\ cpc[c].task = t
    /\ cpc[c].phase = "done"
    /\ cpc[c].ready

\* C1: exactly-once consumption under contention.  Over all value() calls on
\* a task, by any threads in any interleaving, at most one returns Ok; and
\* when two threads are inside value() calls on the task at the same time,
\* both begun after it was Completed, no call of the two returns NotReady,
\* they do not both return Ok, and if they are the only calls that found the
\* task Completed exactly one returns Ok and the other Err(AlreadyTaken).
C1_ExactlyOnceUnderContention ==
    \A t \in Tasks :
        /\ Cardinality(OkEntries(t)) <= 1
        /\ \A c1 \in Callers, c2 \in Callers :
              (c1 # c2 /\ ValueDone(c1, t) /\ ValueDone(c2, t)) =>
                  /\ cpc[c1].r # Err("NotReady")
                  /\ cpc[c2].r # Err("NotReady")
                  /\ ~(cpc[c1].r.tag = "Ok" /\ cpc[c2].r.tag = "Ok")
                  /\ Cardinality(CompletedEntries(t)) = 2 =>
                        \/ cpc[c1].r.tag = "Ok" /\ cpc[c2].r = Err("AlreadyTaken")
                        \/ cpc[c2].r.tag = "Ok" /\ cpc[c1].r = Err("AlreadyTaken")

\* Two threads raced value() on a Completed task: one got Ok, the other
\* Err(AlreadyTaken), and neither call has returned yet.
C1_Witness ==
    \E t \in Tasks, c1 \in Callers, c2 \in Callers :
        /\ c1 # c2
        /\ ValueDone(c1, t) /\ ValueDone(c2, t)
        /\ cpc[c1].r.tag = "Ok"
        /\ cpc[c2].r = Err("AlreadyTaken")

\* C2: in the order in which value() calls take the task's lock, the first
\* call that finds the task Completed returns Ok(r) with r the value the
\* submitted closure returned, and every later call returns
\* Err(AlreadyTaken).
C2_FirstValueThenAlreadyTaken ==
    \A t \in Tasks : \A i \in DOMAIN valueLog[t] :
        valueLog[t][i].completed =>
            IF \E j \in 1..(i - 1) : valueLog[t][j].completed
            THEN valueLog[t][i].r = Err("AlreadyTaken")
            ELSE /\ ret[t] # NoneOpt
                 /\ valueLog[t][i].r = Ok(ret[t][1])

\* A task whose closure returned "b" was read twice after completion: Ok("b"),
\* then Err(AlreadyTaken).
C2_Witness ==
    \E t \in Tasks :
        /\ ret[t] = Some("b")
        /\ Len(valueLog[t]) = 2
        /\ valueLog[t][1].r = Ok("b")
        /\ valueLog[t][2].r = Err("AlreadyTaken")

\* A value() critical section of caller c on a task that is not Completed.
ValueBeforeCompletion(c) ==
    /\ Holds(c, "value")
    /\ status[cpc[c].task] # "Completed"
    /\ cpc'[c].phase = "done"

\* C3: a value() call that takes the lock while the status is not Completed
\* returns Err(NotReady) and leaves every task's status and output unchanged;
\* however many such calls came first, the first value() call that finds the
\* task Completed returns Ok.
C3_NotReadyConsumesNothing ==
    /\ [][\A c \in Callers :
             ValueBeforeCompletion(c) =>
                 /\ cpc'[c].r = Err("NotReady")
                 /\ status' = status
                 /\ output' = output]_vars
    /\ [](\A t \in AllTasks : \A i \in 1..MaxCalls :
             (/\ t \in Tasks
              /\ i \in DOMAIN valueLog[t]
              /\ valueLog[t][i].completed
              /\ \A j \in 1..(i - 1) : valueLog[t][j].r = Err("NotReady"))
             => valueLog[t][i].r.tag = "Ok")

\* A value() call returned Err(NotReady); the next one, after completion,
\* returned Ok.
C3_Witness ==
    \E t \in Tasks :
        /\ Len(valueLog[t]) = 2
        /\ valueLog[t][1].r = Err("NotReady")
        /\ valueLog[t][2].r.tag = "Ok"

\* C4 as stated: the first status() read of a task after run() returned it is
\* Queued.
C4_FirstStatusIsQueued ==
    \A t \in Tasks : seen[t] # <<>> => seen[t][1] = "Queued"

\* C4 as amended: the first status() read of a task after run() returned it
\* is Queued, Running or Completed (never None, never Waiting).
C4_FirstStatusAtLeastQueued ==
    \A t \in Tasks :
        seen[t] # <<>> => seen[t][1] \in {"Queued", "Running", "Completed"}

\* The first status() read after run() returned found the task already
\* Running.
C4_Witness ==
    \E t \in Tasks : seen[t] # <<>> /\ seen[t][1] = "Running"

\* Caller c is inside a wait() call that has left its loop.
WaitDone(c) == cpc[c].op = "wait" /\ cpc[c].phase = "done"

\* C5: whenever wait() leaves its loop the task's status is Completed, and a
\* Completed status never changes, so every later read finds Completed too.
C5_WaitReturnsWhenCompleted ==
    /\ [](\A c \in Callers : WaitDone(c) => status[cpc[c].task] = "Completed")
    /\ [][\A t \in Tasks : status[t] = "Completed" => status'[t] = "Completed"]_vars

\* A wait() call has left its loop on a task that an earlier status() read
\* found Running, with no other call in progress.
C5_Witness ==
    \E c \in Callers :
        /\ WaitDone(c)
        /\ ~ \E d \in Callers : d # c /\ cpc[d].op # "idle"
        /\ valueLog[cpc[c].task] = <<>>
        /\ seen[cpc[c].task] = <<"Running">>

\* The job of task t has been handed to the pool.
Submitted(t) == t < Cur \/ (t = Cur /\ rpc = "idle")

\* Caller c is inside a wait() call and has not left its loop.
Waiting(c) == cpc[c].op = "wait" /\ cpc[c].phase \in {"lock", "held"}

\* Every task handed to the pool is Completed and no wait() call is in its
\* loop.
NoneOutstanding ==
    /\ \A t \in Tasks : Submitted(t) => status[t] = "Completed"
    /\ \A c \in Callers : ~Waiting(c)

\* C6: with at least one worker, closures that return and fair lock
\* acquisition, every task handed to the pool eventually is Completed and
\* every wait() call eventually leaves its loop: as a behaviour has finitely
\* many submissions and calls, from some point on every submitted task is
\* Completed and no wait() call is in its loop.
C6_WaitTerminates == <>[]NoneOutstanding

\* A wait() call did not find the task Completed (it is back at lock()) while
\* the worker that runs the task's job is itself blocked in lock().
C6_Witness ==
    \E c \in Callers, w \in Workers :
        /\ cpc[c].op = "wait"
        /\ cpc[c].phase = "held"
        /\ wtask[w] = cpc[c].task
        /\ wpc[w] \in {"lockRunning", "lockCompleted"}

\* The order of the lifecycle: None, Queued, Running, Completed.  Waiting is
\* no stage of it.
Rank(st) ==
    CASE st = "None" -> 0
      [] st = "Waiting" -> 0
      [] st = "Queued" -> 1
      [] st = "Running" -> 2
      [] st = "Completed" -> 3

Increasing(sq) == \A i \in 1..(Len(sq) - 1) : Rank(sq[i]) < Rank(sq[i + 1])

\* C7: status monotonicity.  No step lowers a task's status in the order
\* Queued, Running, Completed (so a Completed status never changes), no task
\* ever has status Waiting, and the distinct statuses that status() reads of
\* a task return, in the order of the reads, are an increasing selection of
\* Queued, Running, Completed.
C7_StatusMonotonic ==
    /\ [][\A t \in Tasks : Rank(status'[t]) >= Rank(status[t])]_vars
    /\ [](\A t \in AllTasks :
             t \in Tasks =>
                 /\ status[t] # "Waiting"
                 /\ \A i \in DOMAIN seen[t] : seen[t][i] \in {"Queued", "Running", "Completed"}
                 /\ Increasing(seen[t]))

\* A poller read Queued and then Completed (a sparse selection).
C7_Witness ==
    \E t \in Tasks : seen[t] = <<"Queued", "Completed">>

\* The closure of task t has been called and has not returned.
InFun(t) == \E w \in Workers : wpc[w] = "fun" /\ wtask[w] = t

\* Caller c's critical section of call op, ending with the call's result.
Finishes(c, op) == Holds(c, op) /\ cpc'[c].phase = "done"

\* C8: while the closure of a task has been called and has not returned, the
\* task's status is Running, every status() read of it returns Running and
\* every value() call on it returns Err(NotReady); and when a wait() on the
\* task has left its loop the closure has returned, the status is Completed
\* and the closure's result is in the output slot unless a value() call
\* returned it as Ok.
C8_RunningWhileClosureExecutes ==
    /\ [](\A w \in Workers : wpc[w] = "fun" => status[wtask[w]] = "Running")
    /\ [][\A c \in Callers :
             (Finishes(c, "status") /\ InFun(cpc[c].task)) =>
                 cpc'[c].r = StatusResult("Running")]_vars
    /\ [][\A c \in Callers :
             (Finishes(c, "value") /\ InFun(cpc[c].task)) =>
                 cpc'[c].r = Err("NotReady")]_vars
    /\ [](\A c \in Callers :
             WaitDone(c) =>
                 LET t == cpc[c].task
                 IN  /\ ret[t] # NoneOpt
                     /\ status[t] = "Completed"
                     /\ \/ output[t] = ret[t]
                        \/ \E i \in DOMAIN valueLog[t] : valueLog[t][i].r = Ok(ret[t][1]))

\* A status() read returned Running and a value() call is about to return
\* Err(NotReady) while the closure has not returned.
C8_Witness ==
    \E c \in Callers, d \in Callers :
        /\ cpc[c].op = "status" /\ cpc[c].phase = "done"
        /\ cpc[c].r = StatusResult("Running")
        /\ cpc[d].op = "value" /\ cpc[d].phase = "done"
        /\ cpc[d].r = Err("NotReady")
        /\ cpc[d].task = cpc[c].task
        /\ InFun(cpc[c].task)

\* C9: in a pool of NWorkers workers, as long as none of the closures of the
\* first NWorkers tasks has returned, task NWorkers + 1, once handed to the
\* pool, has status Queued and every status() read of it returned Queued.
C9_ExtraTaskStaysQueued ==
    \A t \in Tasks :
        (/\ t = NWorkers + 1
         /\ Submitted(t)
         /\ \A u \in 1..NWorkers : ret[u] = NoneOpt)
        => /\ status[t] = "Queued"
           /\ seen[t] \in {<<>>, <<"Queued">>}

\* Every worker is inside a closure that has not returned, and a status()
\* read of task NWorkers + 1 returned Queued.
C9_Witness ==
    /\ NWorkers + 1 \in Tasks
    /\ \A w \in Workers : wpc[w] = "fun"
    /\ \A u \in 1..NWorkers : ret[u] = NoneOpt
    /\ seen[NWorkers + 1] = <<"Queued">>

\* The calls that read once: status(), the predicates, value().
SingleRead(c) == cpc[c].op \in ({"status", "predicate", "value"} \cup Predicates)

\* C10: status(), the predicates and value() never wait for completion.  A
\* worker does not hold the task's lock while the closure executes; such a
\* call leaves its critical section with its result (it never goes back to
\* lock()); and, with fair lock acquisition and even if no closure ever
\* returns, every such call gets its result: as a behaviour has finitely many
\* calls, from some point on no such call is at lock() or in its critical
\* section.
C10_ReadsNeverWaitForCompletion ==
    /\ [](\A w \in Workers : wpc[w] = "fun" => lock[wtask[w]] # WorkerThread(w))
    /\ [][\A c \in Callers :
             (SingleRead(c) /\ cpc[c].phase = "held" /\ cpc'[c] # cpc[c]) =>
                 cpc'[c].phase = "done"]_vars
    /\ <>[](\A c \in Callers :
               ~(SingleRead(c) /\ cpc[c].phase \in {"lock", "held"}))

\* running() is about to return true for a task whose closure has not
\* returned: the call got the lock and its result while the closure executes.
C10_Witness ==
    \E c \in Callers :
        /\ cpc[c].op = "running" /\ cpc[c].phase = "done"
        /\ cpc[c].r = BoolResult(TRUE)
        /\ InFun(cpc[c].task)

\* Caller c is inside a status() call that has passed its critical section.
StatusDone(c) == cpc[c].op = "status" /\ cpc[c].phase = "done"

\* C11: None is unobservable through a returned handle.  A task whose job
\* has been handed to the pool does not have status None (run() wrote Queued
\* before), so no status() call returns None and no status() snapshot of any
\* task is None.
C11_NoneNeverObserved ==
    /\ \A t \in Tasks :
          /\ Submitted(t) => status[t] # "None"
          /\ \A i \in DOMAIN seen[t] : seen[t][i] # "None"
    /\ \A c \in Callers : StatusDone(c) => cpc[c].r.st # "None"

\* A status() call is about to return Queued while the job is still in the
\* pool's queue: the handle was returned and no worker has touched the task.
C11_Witness ==
    \E c \in Callers :
        /\ StatusDone(c)
        /\ cpc[c].r = StatusResult("Queued")
        /\ \E i \in DOMAIN queue : queue[i] = cpc[c].task

\* Number of times the closure submitted for task t has been invoked and
\* has returned.
Invocations(t) == Len(ret[t])

\* C12: the job invokes the closure exactly once, between the Running and the
\* Completed transition: a task that is not yet Running has no invocation, a
\* task whose closure is executing is Running with no earlier invocation, a
\* task with an invocation behind it is Running or Completed, a Completed
\* task has exactly one invocation, and no task ever has two.
C12_ClosureInvokedExactlyOnce ==
    \A t \in Tasks :
        /\ Invocations(t) <= 1
        /\ status[t] \in {"None", "Queued"} => Invocations(t) = 0 /\ ~InFun(t)
        /\ InFun(t) => Invocations(t) = 0 /\ status[t] = "Running"
        /\ Invocations(t) = 1 => status[t] \in {"Running", "Completed"}
        /\ status[t] = "Completed" => Invocations(t) = 1

\* The closure of a task has returned and the job has not yet marked the
\* task Completed: the one invocation lies between the two transitions.
C12_Witness ==
    \E w \in Workers :
        /\ wpc[w] = "lockCompleted"
        /\ Invocations(wtask[w]) = 1
        /\ status[wtask[w]] = "Running"
        /\ wout[w] = ret[wtask[w]]

\* The state of task t as another thread can find it: the job is not inside
\* one of its critical sections on t.
VisibleToOthers(t) == lock[t].k # "worker"

\* C13: in every state a thread other than the writing job can find under
\* the lock, the output is present only if the status is Completed (never
\* while None, Queued or Running), and once a value() call has returned Ok
\* the output is empty and stays empty.
C13_OutputOnlyWhenCompleted ==
    \A t \in Tasks :
        /\ VisibleToOthers(t) /\ output[t] # NoneOpt => status[t] = "Completed"
        /\ OkEntries(t) # {} => output[t] = NoneOpt

\* A caller holds the lock of a Completed task whose output is present,
\* while another task's output has been emptied by a successful value().
C13_Witness ==
    \E c \in Callers, t \in Tasks :
        /\ cpc[c].phase = "held"
        /\ lock[cpc[c].task] = CallerThread(c)
        /\ output[cpc[c].task] # NoneOpt
        /\ status[cpc[c].task] = "Completed"
        /\ t # cpc[c].task
        /\ OkEntries(t) # {}
        /\ output[t] = NoneOpt

\* C14: Completed is never visible while the job has not yet stored the
\* output: a Completed task either still holds its output or a value() call
\* has returned it, and a value() call returns Err(AlreadyTaken) only after
\* an earlier value() call on the same task (in lock order) returned Ok.
C14_OutputBeforeCompleted ==
    \A t \in Tasks :
        /\ status[t] = "Completed" => output[t] # NoneOpt \/ OkEntries(t) # {}
        /\ \A i \in DOMAIN valueLog[t] :
              valueLog[t][i].r = Err("AlreadyTaken")
                  => \E j \in 1..(i - 1) : valueLog[t][j].r.tag = "Ok"

\* A value() call is about to return Err(AlreadyTaken) after an earlier
\* value() call on the same task has returned Ok to its caller.
C14_Witness ==
    \E c \in Callers :
        /\ cpc[c].op = "value"
        /\ cpc[c].phase = "done"
        /\ cpc[c].r = Err("AlreadyTaken")
        /\ valueLog[cpc[c].task][1].r.tag = "Ok"
        /\ \A d \in Callers \ {c} : cpc[d] = IdleCall

\* The threads whose position is inside a critical section on task t:
\* run() between lines 127 and 129, the job inside one of its two blocks,
\* a caller between its lock() and the drop of its guard.
InSection(t) ==
    {th \in {MainThread} : t = Cur /\ rpc = "queued"}
      \cup {WorkerThread(w) : w \in {x \in Workers :
                wtask[x] = t /\ wpc[x] \in {"markRunning", "setOutput", "markCompleted"}}}
      \cup {CallerThread(c) : c \in {x \in Callers :
                cpc[x].task = t /\ cpc[x].phase = "held"}}

\* A step writes the status or the output of task t.
Writes(t) == status'[t] # status[t] \/ output'[t] # output[t]

\* A step in which caller c reads the shared state to compute its result or
\* to test the loop condition of wait().
Reads(c) == cpc[c].phase = "held" /\ cpc'[c] # cpc[c]

\* C15: per task, at most one thread is inside a critical section at any
\* time and it is the holder of the task's lock; every step that writes the
\* status or the output of a task, and every step in which a Task method
\* reads them, is taken by the thread that holds the task's lock.
C15_MutualExclusion ==
    /\ [](\A t \in Tasks :
            /\ Cardinality(InSection(t)) <= 1
            /\ InSection(t) = {lock[t]} \ {Free})
    /\ [][/\ \A t \in Tasks : Writes(t) => lock[t] # Free /\ lock[t] \in InSection(t)
          /\ \A c \in Callers : Reads(c) => lock[cpc[c].task] = CallerThread(c)]_vars

\* The job holds the lock of a task inside its second block while a caller
\* is blocked in lock() on the same task.
C15_Witness ==
    \E w \in Workers, c \in Callers :
        /\ wpc[w] = "markCompleted"
        /\ lock[SharedState(w)] = WorkerThread(w)
        /\ cpc[c].phase = "lock"
        /\ cpc[c].task = wtask[w]

\* The tasks whose status is Running.
RunningTasks == {t \in Tasks : status[t] = "Running"}

\* C16: with a pool of NWorkers workers, at most NWorkers tasks have status
\* Running at any moment.
C16_AtMostNRunning == Cardinality(RunningTasks) <= NWorkers

\* As many tasks are Running as the pool has workers, while a further job
\* waits in the pool's queue and a closure has already returned.
C16_Witness ==
    /\ Cardinality(RunningTasks) = NWorkers
    /\ queue # <<>>
    /\ \E w \in Workers : wpc[w] = "lockCompleted"

\* C17: in a pool with one worker, tasks start and complete in submission
\* order: a later-submitted task is Running or Completed only if every task
\* submitted before it is Completed.
C17_SingleWorkerSubmissionOrder ==
    NWorkers = 1 =>
        \A t \in Tasks, u \in Tasks :
            t < u /\ status[u] \in {"Running", "Completed"}
                => status[t] = "Completed"

\* With one worker, the closure of a later-submitted task is executing after
\* an earlier-submitted task has been Completed.
C17_Witness ==
    /\ NWorkers = 1
    /\ \E t \in Tasks, u \in Tasks :
          /\ t < u
          /\ status[t] = "Completed"
          /\ InFun(u)

\* The status and the output of task t are the same after the step.
Untouched(t) == status'[t] = status[t] /\ output'[t] = output[t]

\* The task a step of worker w belongs to (the job it takes or executes).
JobTask(w) == IF wtask[w] # 0 THEN wtask[w] ELSE wtask'[w]

\* The task a step of caller c belongs to (the handle the call is made on).
CallTask(c) == IF cpc[c].task # 0 THEN cpc[c].task ELSE cpc'[c].task

\* C18: tasks are isolated.  A run() call that builds a task gives it fresh
\* shared state (status None, no output) and leaves every existing task
\* alone; every other step of run(), of a job and of a Task method leaves
\* the status and the output of every task but its own unchanged; and every
\* Ok result of value() on a task is what that task's own closure returned.
C18_TaskIsolation ==
    /\ [][/\ Len(status') > Len(status) =>
                /\ status'[Len(status')] = TaskSharedStateNew.status
                /\ output'[Len(status')] = TaskSharedStateNew.output
                /\ \A t \in Tasks : Untouched(t)
          /\ rpc' # rpc => \A t \in Tasks \ {Cur'} : Untouched(t)
          /\ \A w \in Workers : wpc'[w] # wpc[w] =>
                \A t \in Tasks \ {JobTask(w)} : Untouched(t)
          /\ \A c \in Callers : cpc'[c] # cpc[c] =>
                \A t \in Tasks \ {CallTask(c)} : Untouched(t)]_vars
    /\ [](\A t \in Tasks : \A i \in OkEntries(t) :
              /\ Invocations(t) = 1
              /\ valueLog[t][i].r = Ok(ret[t][1]))

\* Two tasks whose closures returned different values have each yielded
\* their own value through value().
C18_Witness ==
    \E t \in Tasks, u \in Tasks :
        /\ ret[t] # NoneOpt /\ ret[u] # NoneOpt
        /\ ret[t] # ret[u]
        /\ \E i \in OkEntries(t) : valueLog[t][i].r = Ok(ret[t][1])
        /\ \E j \in OkEntries(u) : valueLog[u][j].r = Ok(ret[u][1])

ReadOnlyOps == {"status", "predicate", "queued", "running", "completed", "wait"}

\* A step of caller c inside a call of one of the read-only methods.
ReadOnlyStep(c) ==
    /\ cpc'[c] # cpc[c]
    /\ cpc[c].op \in ReadOnlyOps \/ cpc'[c].op \in ReadOnlyOps

\* The critical section of caller c ends with a result.
Answers(c) == cpc[c].phase = "held" /\ cpc'[c].phase = "done"

\* C19: status(), queued(), running(), completed() and wait() are
\* read-only: no step of such a call changes the status or the output of any
\* task; status() returns the status found under the lock, and queued(),
\* running() and completed() return whether that status is Queued, Running
\* or Completed respectively.
C19_ReadersAreReadOnly ==
    [][\A c \in Callers :
          ReadOnlyStep(c) =>
              /\ status' = status
              /\ output' = output
              /\ Answers(c) =>
                    LET st == status[cpc[c].task]
                        r == cpc'[c].r
                    IN  /\ cpc'[c].op = "status" => r.tag = "Status" /\ r.st = st
                        /\ cpc'[c].op = "queued" => r.tag = "Bool" /\ r.b = (st = "Queued")
                        /\ cpc'[c].op = "running" => r.tag = "Bool" /\ r.b = (st = "Running")
                        /\ cpc'[c].op = "completed" => r.tag = "Bool" /\ r.b = (st = "Completed")
                        /\ cpc'[c].op = "wait" => r.tag = "Unit" /\ st = "Completed"]_vars

\* queued() is about to return TRUE for the state in which it took the lock,
\* while the job has since moved the task to Running.
C19_Witness ==
    \E c \in Callers :
        /\ cpc[c].op = "queued" /\ cpc[c].phase = "done"
        /\ cpc[c].r = BoolResult(TRUE)
        /\ status[cpc[c].task] = "Running"
        /\ output[cpc[c].task] = NoneOpt

====
